---- MODULE Spec2Model ----
(***************************************************************************)
(* A model of the concurrent TCP listener of src/server.cpp and of the     *)
(* synchronized print of src/utility.h.                                    *)
(*                                                                         *)
(* The main thread parses its arguments, sets the listening socket up      *)
(* (socket, setsockopt, bind, getsockname, listen) and then loops on       *)
(* accept, spawning one detached thread per accepted connection.  Every    *)
(* thread writes to the console through thread_safe_print, which holds     *)
(* cout_mutex for the whole of one message and its end of line.            *)
(*                                                                         *)
(* The operating system is the environment: each system call may fail,     *)
(* clients connect while the socket listens, file descriptors are handed   *)
(* out lowest-free-first, and an exception that leaves a thread function   *)
(* ends the process (std::terminate).                                      *)
(***************************************************************************)
EXTENDS Integers, Sequences, FiniteSets, TLC

(* ------------------------------ bounds --------------------------------- *)

\* Number of clients that connect during one run.
MaxConn == 3

(* --------------------------- program constants ------------------------- *)

USAGE_MESSAGE_c == "Usage: ./server {port number}"
USER_SELECTED_FOLLOWING_PORT_c == "> User selected to run the server on port: "
USER_DID_NOT_SPECIFY_PORT_c == "> User did not specify a port, picking a port for the user"
SERVER_LISTENING_ON_PORT_c == "> Server live and listening on port: "
HANDLING_NEW_CONNECTION_c == "> Handling new connection: "

ENCOUNTERED_AN_ERROR_OPENING_STREAM_SOCKET_c == "> Encountered a fatal error while opening stream socket"
ENCOUNTERED_ERROR_SETTING_SOCKET_OPTIONS_c == "> Encountered a fatal error while setting socket options"
ENCOUNTERED_ERROR_BINDING_STREAM_SOCKET_c == "> Encountered a fatal error while binding stream socket"
ENCOUNTERED_ERROR_FETCHING_SOCKET_PORT_c == "> Encountered a fatal error while fetching socket port"
ENCOUNTERED_ERROR_ACCEPTING_NEW_CONNECTION_c == "> Encountered a fatal error while attempting to accept a new connection"

SERVER_SOCKET_QUEUE_SIZE_c == 30

\* std::endl, as a token of the output stream.
ENDL == "endl"

\* The id of the main thread; handler threads are 1, 2, ... in spawn order.
MAIN == 0

\* cout_mutex when no thread holds it.
FREE == -1

\* The value of an int that holds no descriptor (a failed call's result).
NOFD == -1

(* ------------------------------ inputs --------------------------------- *)

\* Values of argv[1], as sequences of characters.
ArgStrings ==
  { <<"8", "0">>, <<"0">>, <<"a", "b", "c">>, <<"-", "1">>,
    <<"6", "5", "5", "3", "5">>, <<"6", "5", "5", "3", "6">>,
    <<"6", "5", "6", "1", "6">> }

\* Ports the operating system may choose when asked to bind port 0.
EphemeralPorts == {32768, 60999}

(* ------------------------------ state ---------------------------------- *)

VARIABLES
  argc,       \* main's argc
  argv1,      \* argv[1] (<<>> when argc = 1)
  port,       \* main's port, then run_server's port_number
  mainPc,     \* the main thread's position
  errWhat,    \* err.what() of the Server_Error in flight ("" when none)
  proc,       \* "running", "exited" (main returned) or "terminated" (std::terminate)
  exitCode,   \* what main returned, once proc = "exited" (a terminated process has none)
  socket_fd,  \* run_server's socket_fd
  sinPort,    \* addr.sin_port as make_server_sockaddr left it (network order)
  boundPort,  \* the port the OS bound the socket to (host order), 0 when unbound
  listening,  \* whether the OS has the socket in the listening state
  calls,      \* the system calls made so far, with their results
  openFds,    \* the descriptors open in the process
  pending,    \* connections queued in the backlog
  nConnected, \* clients that have connected so far
  connection_fd, \* the accept loop's connection_fd
  thr,        \* the handler threads, in spawn order: [fd, pc]
  tsp,        \* each thread's stage inside thread_safe_print
  cout_mutex, \* the holder of cout_mutex, or FREE
  out         \* std::cout: the tokens written so far

vars ==
  << argc, argv1, port, mainPc, errWhat, proc, exitCode, socket_fd, sinPort,
     boundPort, listening, calls, openFds, pending, nConnected, connection_fd,
     thr, tsp, cout_mutex, out >>

mainVars == << argc, argv1, port, mainPc, errWhat >>
sockVars == << socket_fd, sinPort, boundPort, listening, calls, openFds, connection_fd >>
netVars == << pending, nConnected >>
printVars == << tsp, cout_mutex, out >>
procVars == << proc, exitCode >>

(* ------------------------- pure functions ------------------------------ *)

IsDigit(c) == c \in {"0", "1", "2", "3", "4", "5", "6", "7", "8", "9"}

DigitVal(c) ==
  CASE c = "0" -> 0 [] c = "1" -> 1 [] c = "2" -> 2 [] c = "3" -> 3
    [] c = "4" -> 4 [] c = "5" -> 5 [] c = "6" -> 6 [] c = "7" -> 7
    [] c = "8" -> 8 [] c = "9" -> 9

\* The digits of s from position i on, accumulated onto acc, up to the first
\* character that is no digit.
RECURSIVE AtoiDigits(_, _, _)
AtoiDigits(s, i, acc) ==
  IF i > Len(s) \/ ~IsDigit(s[i])
    THEN acc
    ELSE AtoiDigits(s, i + 1, acc * 10 + DigitVal(s[i]))

\* A conversion that answers -1 for a text that does not start a number.
AtoiMinusOneOnError(s) ==
  IF s = <<>> THEN -1
  ELSE IF s[1] = "-" THEN 0 - AtoiDigits(s, 2, 0)
  ELSE IF s[1] = "+" THEN AtoiDigits(s, 2, 0)
  ELSE IF IsDigit(s[1]) THEN AtoiDigits(s, 1, 0)
  ELSE -1

\* atoi: leading blanks, an optional sign, then digits; 0 when there are none.
RECURSIVE Atoi(_)
Atoi(s) ==
  IF s = <<>> THEN 0
  ELSE IF s[1] = " " THEN Atoi(Tail(s))
  ELSE IF s[1] = "-" THEN 0 - AtoiDigits(s, 2, 0)
  ELSE IF s[1] = "+" THEN AtoiDigits(s, 2, 0)
  ELSE AtoiDigits(s, 1, 0)

\* A conversion that saturates at the ends of the 16-bit range.
ToU16Saturating(n) == IF n < 0 THEN 0 ELSE IF n > 65535 THEN 65535 ELSE n

\* Conversion of an int to uint16_t at the call of htons / ntohs.
ToU16(n) == n % 65536

\* Exchange of the two bytes of a 16-bit value (a little-endian host).
Swap16(x) == (x % 256) * 256 + (x \div 256)

Htons(n) == Swap16(ToU16(n))

\* The port read back without the conversion to host order.
NtohsNoSwap(n) == ToU16(n)

Ntohs(n) == Swap16(ToU16(n))

\* The lowest descriptor not open: what socket and accept return.
LowestFree(open) == CHOOSE f \in 0..(Cardinality(open)) : f \notin open /\ \A g \in 0..(f - 1) : g \in open

(* ------------------------------ Init ----------------------------------- *)

Init ==
  /\ argc \in {1, 2, 3}
  /\ argv1 \in IF argc = 1 THEN {<<>>} ELSE IF argc = 2 THEN ArgStrings ELSE {<<"8", "0">>}
  /\ port = 0
  /\ mainPc = "main"
  /\ errWhat = ""
  /\ proc = "running"
  /\ exitCode = 0
  /\ socket_fd = NOFD
  /\ sinPort = 0
  /\ boundPort = 0
  /\ listening = FALSE
  /\ calls = <<>>
  /\ openFds = {0, 1, 2}
  /\ pending = 0
  /\ nConnected = 0
  /\ connection_fd = NOFD
  /\ thr = <<>>
  /\ tsp = [c \in {MAIN} |-> "idle"]
  /\ cout_mutex = FREE
  /\ out = <<>>

Alive == proc = "running"

(* --------------------------- helpers of the actions -------------------- *)

\* The threads that exist: main and the handlers spawned so far.
Callers == 0..Len(thr)

\* The handler threads spawned so far.
Handlers == 1..Len(thr)

\* A system call made by the main thread, with its result.
Called(op, ret) == Append(calls, [by |-> MAIN, op |-> op, ret |-> ret])

\* throw Server_Error(msg) inside run_server: control reaches main's catch.
Throw(msg) ==
  /\ errWhat' = msg
  /\ mainPc' = "print_error"

\* The test with its limit off by one.
TooManyArgsOffByOne(n) == n > 3

\* main's test of its argument count.
TooManyArgs(n) == n > 2

\* A handler started on the listening socket instead of the connection.
SpawnHandlerOnListener(ts, fd) == Append(ts, [fd |-> socket_fd, pc |-> "print"])

\* Two threads started on the same connection.
SpawnHandlerTwice(ts, fd) ==
  Append(Append(ts, [fd |-> fd, pc |-> "print"]), [fd |-> fd, pc |-> "print"])

\* std::thread service_connection(handle_connection, fd); detach(): one new
\* thread that starts at the top of handle_connection with fd as its argument.
SpawnHandler(ts, fd) == Append(ts, [fd |-> fd, pc |-> "print"])

\* tsp for the threads of ts: the new ones are outside thread_safe_print.
ExtendTsp(ts) == [c \in 0..Len(ts) |-> IF c \in DOMAIN tsp THEN tsp[c] ELSE "idle"]

\* Whether thread c stands at a call of thread_safe_print.
AtPrint(c) ==
  IF c = MAIN
    THEN mainPc \in {"print_usage", "print_port", "print_listening", "print_error"}
    ELSE thr[c].pc = "print"

\* The argument thread c passes to thread_safe_print; to_string(n) is <<n>>.
Msg(c) ==
  IF c # MAIN
    THEN [by |-> c, text |-> HANDLING_NEW_CONNECTION_c, arg |-> <<thr[c].fd>>]
  ELSE IF mainPc = "print_usage"
    THEN [by |-> c, text |-> USAGE_MESSAGE_c, arg |-> <<>>]
  ELSE IF mainPc = "print_port"
    THEN IF argc = 2
           THEN [by |-> c, text |-> USER_SELECTED_FOLLOWING_PORT_c, arg |-> <<port>>]
           ELSE [by |-> c, text |-> USER_DID_NOT_SPECIFY_PORT_c, arg |-> <<>>]
  ELSE IF mainPc = "print_listening"
    THEN [by |-> c, text |-> SERVER_LISTENING_ON_PORT_c, arg |-> <<port>>]
  ELSE [by |-> c, text |-> errWhat, arg |-> <<>>]

\* The listening line followed by accept, with the listen call left out.
AfterPrintSkipListen(pc) ==
  CASE pc = "print_usage" -> "return"
    [] pc = "print_port" -> "socket"
    [] pc = "print_listening" -> "accept"
    [] pc = "print_error" -> "return"

\* Where the main thread continues after a call of thread_safe_print.
AfterPrint(pc) ==
  CASE pc = "print_usage" -> "return"
    [] pc = "print_port" -> "socket"
    [] pc = "print_listening" -> "listen"
    [] pc = "print_error" -> "return"

(* ------------------------------ main ----------------------------------- *)

\* main, lines 84-98 up to the first print: the usage test and the port.
MainEntry ==
  /\ Alive
  /\ mainPc = "main"
  /\ IF TooManyArgs(argc)
       THEN /\ mainPc' = "print_usage"
            /\ port' = port
       ELSE /\ mainPc' = "print_port"
            /\ port' = IF argc = 2 THEN Atoi(argv1) ELSE 0
  /\ UNCHANGED << argc, argv1, errWhat, sockVars, netVars, thr, printVars, procVars >>

\* return -1 from main: the process exits and its detached threads end with it.
MainReturn ==
  /\ Alive
  /\ mainPc = "return"
  /\ mainPc' = "returned"
  /\ proc' = "exited"
  /\ exitCode' = -1
  /\ UNCHANGED << argc, argv1, port, errWhat, sockVars, netVars, thr, printVars >>

(* ---------------------------- run_server ------------------------------- *)

\* (1.0) socket(AF_INET, SOCK_STREAM, 0)
Socket ==
  /\ Alive
  /\ mainPc = "socket"
  /\ \E r \in {LowestFree(openFds), -1} :
       /\ socket_fd' = r
       /\ calls' = Called("socket", r)
       /\ IF r = -1
            THEN /\ Throw(ENCOUNTERED_AN_ERROR_OPENING_STREAM_SOCKET_c)
                 /\ openFds' = openFds
            ELSE /\ mainPc' = "setsockopt"
                 /\ openFds' = openFds \cup {r}
                 /\ errWhat' = errWhat
  /\ UNCHANGED << argc, argv1, port, sinPort, boundPort, listening, connection_fd,
                  netVars, thr, printVars, procVars >>

\* (2.0) setsockopt(socket_fd, SOL_SOCKET, SO_REUSEADDR, ...)
SetSockOpt ==
  /\ Alive
  /\ mainPc = "setsockopt"
  /\ \E r \in {0, -1} :
       /\ calls' = Called("setsockopt", r)
       /\ IF r = -1
            THEN Throw(ENCOUNTERED_ERROR_SETTING_SOCKET_OPTIONS_c)
            ELSE /\ mainPc' = "bind"
                 /\ errWhat' = errWhat
  /\ UNCHANGED << argc, argv1, port, socket_fd, sinPort, boundPort, listening, openFds,
                  connection_fd, netVars, thr, printVars, procVars >>

\* (3.0) make_server_sockaddr(&addr, port_number), then (3.1) bind.  The OS
\* reads sin_port in network order and picks a port itself when it is 0.
Bind ==
  /\ Alive
  /\ mainPc = "bind"
  /\ sinPort' = Htons(port)
  /\ \E r \in {0, -1} :
       /\ calls' = Called("bind", r)
       /\ IF r = -1
            THEN /\ Throw(ENCOUNTERED_ERROR_BINDING_STREAM_SOCKET_c)
                 /\ boundPort' = boundPort
            ELSE /\ mainPc' = "getsockname"
                 /\ errWhat' = errWhat
                 /\ IF Swap16(sinPort') = 0
                      THEN boundPort' \in EphemeralPorts
                      ELSE boundPort' = Swap16(sinPort')
  /\ UNCHANGED << argc, argv1, port, socket_fd, listening, openFds,
                  connection_fd, netVars, thr, printVars, procVars >>

\* get_port_number without the listening line after it.
GetPortNumberNoLog ==
  /\ Alive
  /\ mainPc = "getsockname"
  /\ \E r \in {0, -1} :
       /\ calls' = Called("getsockname", r)
       /\ IF r = -1
            THEN /\ Throw(ENCOUNTERED_ERROR_FETCHING_SOCKET_PORT_c)
                 /\ port' = port
            ELSE /\ mainPc' = "listen"
                 /\ errWhat' = errWhat
                 /\ port' = Ntohs(Swap16(boundPort))
  /\ UNCHANGED << argc, argv1, socket_fd, sinPort, boundPort, listening, openFds,
                  connection_fd, netVars, thr, printVars, procVars >>

\* (3.2) port_number = get_port_number(socket_fd): getsockname fills sin_port
\* in network order and ntohs brings it back to host order.
GetPortNumber ==
  /\ Alive
  /\ mainPc = "getsockname"
  /\ \E r \in {0, -1} :
       /\ calls' = Called("getsockname", r)
       /\ IF r = -1
            THEN /\ Throw(ENCOUNTERED_ERROR_FETCHING_SOCKET_PORT_c)
                 /\ port' = port
            ELSE /\ mainPc' = "print_listening"
                 /\ errWhat' = errWhat
                 /\ port' = Ntohs(Swap16(boundPort))
  /\ UNCHANGED << argc, argv1, socket_fd, sinPort, boundPort, listening, openFds,
                  connection_fd, netVars, thr, printVars, procVars >>

\* (4) listen(socket_fd, socket_queue_size): the result is not looked at.
Listen ==
  /\ Alive
  /\ mainPc = "listen"
  /\ \E r \in {0, -1} :
       /\ calls' = Called("listen", r)
       /\ listening' = (r = 0)
  /\ mainPc' = "accept"
  /\ UNCHANGED << argc, argv1, port, errWhat, socket_fd, sinPort, boundPort, openFds,
                  connection_fd, netVars, thr, printVars, procVars >>

\* accept reached only once every handler has returned (a join in the loop).
AcceptReadyAfterJoin == listening /\ pending > 0 /\ \A c \in Handlers : thr[c].pc = "done"

\* What accept waits for: a connection queued on a listening socket.
AcceptReady == listening /\ pending > 0

\* (5) accept(socket_fd, 0, 0) returns a new connection.
AcceptOk ==
  /\ Alive
  /\ mainPc = "accept"
  /\ AcceptReady
  /\ LET fd == LowestFree(openFds) IN
       /\ connection_fd' = fd
       /\ openFds' = openFds \cup {fd}
       /\ calls' = Called("accept", fd)
  /\ pending' = pending - 1
  /\ mainPc' = "spawn"
  /\ UNCHANGED << argc, argv1, port, errWhat, socket_fd, sinPort, boundPort, listening,
                  nConnected, thr, printVars, procVars >>

\* A failed accept that is tried again instead of thrown.
AcceptFailRetry ==
  /\ Alive
  /\ mainPc = "accept"
  /\ connection_fd' = -1
  /\ calls' = Called("accept", -1)
  /\ UNCHANGED << mainVars, socket_fd, sinPort, boundPort, listening, openFds,
                  netVars, thr, printVars, procVars >>

\* (5) accept returns -1 (the socket does not listen, no descriptor is left,
\* the call was interrupted, ...): run_server throws.
AcceptFail ==
  /\ Alive
  /\ mainPc = "accept"
  /\ connection_fd' = -1
  /\ calls' = Called("accept", -1)
  /\ Throw(ENCOUNTERED_ERROR_ACCEPTING_NEW_CONNECTION_c)
  /\ UNCHANGED << argc, argv1, port, socket_fd, sinPort, boundPort, listening, openFds,
                  netVars, thr, printVars, procVars >>

\* Lines 157-158: spawn the handler thread, detach it, loop back to accept.
Spawn ==
  /\ Alive
  /\ mainPc = "spawn"
  /\ thr' = SpawnHandler(thr, connection_fd)
  /\ tsp' = ExtendTsp(thr')
  /\ mainPc' = "accept"
  /\ UNCHANGED << argc, argv1, port, errWhat, sockVars, netVars, cout_mutex, out, procVars >>

(* -------------------------- thread_safe_print -------------------------- *)

\* A print that enters without waiting for the mutex.
LockNoWait(c) ==
  /\ Alive
  /\ AtPrint(c)
  /\ tsp[c] = "idle"
  /\ cout_mutex' = c
  /\ tsp' = [tsp EXCEPT ![c] = "locked"]
  /\ UNCHANGED << mainVars, sockVars, netVars, thr, out, procVars >>

\* std::lock_guard<std::mutex> cout_lock(cout_mutex): waits until it is free.
Lock(c) ==
  /\ Alive
  /\ AtPrint(c)
  /\ tsp[c] = "idle"
  /\ cout_mutex = FREE
  /\ cout_mutex' = c
  /\ tsp' = [tsp EXCEPT ![c] = "locked"]
  /\ UNCHANGED << mainVars, sockVars, netVars, thr, out, procVars >>

\* std::cout << to_print
Write(c) ==
  /\ Alive
  /\ tsp[c] = "locked"
  /\ out' = Append(out, Msg(c))
  /\ tsp' = [tsp EXCEPT ![c] = "wrote"]
  /\ UNCHANGED << mainVars, sockVars, netVars, thr, cout_mutex, procVars >>

\* if (trailing_endline) std::cout << std::endl; every call of the program
\* leaves trailing_endline at its default, true.
Endl(c) ==
  /\ Alive
  /\ tsp[c] = "wrote"
  /\ out' = Append(out, [by |-> c, text |-> ENDL, arg |-> <<>>])
  /\ tsp' = [tsp EXCEPT ![c] = "flushed"]
  /\ UNCHANGED << mainVars, sockVars, netVars, thr, cout_mutex, procVars >>

\* The lock_guard's destructor at the end of thread_safe_print; the caller
\* goes on with the statement after the call.
Unlock(c) ==
  /\ Alive
  /\ tsp[c] = "flushed"
  /\ cout_mutex' = FREE
  /\ tsp' = [tsp EXCEPT ![c] = "idle"]
  /\ IF c = MAIN
       THEN /\ mainPc' = AfterPrint(mainPc)
            /\ thr' = thr
       ELSE /\ thr' = [thr EXCEPT ![c].pc = "memset"]
            /\ mainPc' = mainPc
  /\ UNCHANGED << argc, argv1, port, errWhat, sockVars, netVars, out, procVars >>

(* -------------------------- handle_connection -------------------------- *)

\* Lines 214-217: the buffer is cleared and the thread function returns.
\* connection_fd is a plain int: nothing closes it.
HandlerFinish(c) ==
  /\ Alive
  /\ thr[c].pc = "memset"
  /\ thr' = [thr EXCEPT ![c].pc = "done"]
  /\ UNCHANGED << mainVars, sockVars, netVars, printVars, procVars >>

\* Line 212 throws (std::bad_alloc from the string concatenation, or
\* std::system_error from the lock) before the mutex is held.  The exception
\* leaves the thread function, so std::terminate ends the process.
HandlerThrow(c) ==
  /\ Alive
  /\ thr[c].pc = "print"
  /\ tsp[c] = "idle"
  /\ thr' = [thr EXCEPT ![c].pc = "threw"]
  /\ proc' = "terminated"
  /\ exitCode' = exitCode
  /\ UNCHANGED << mainVars, sockVars, netVars, printVars >>

(* ------------------------------ clients -------------------------------- *)

\* A client connects: the OS queues the connection while the socket listens
\* and the backlog given to listen has room.
ClientConnect ==
  /\ Alive
  /\ listening
  /\ nConnected < MaxConn
  /\ pending < SERVER_SOCKET_QUEUE_SIZE_c
  /\ pending' = pending + 1
  /\ nConnected' = nConnected + 1
  /\ UNCHANGED << mainVars, sockVars, thr, printVars, procVars >>

(* --------------------------- specification ----------------------------- *)

Next ==
  \/ MainEntry
  \/ MainReturn
  \/ Socket
  \/ SetSockOpt
  \/ Bind
  \/ GetPortNumber
  \/ Listen
  \/ AcceptOk
  \/ AcceptFail
  \/ Spawn
  \/ \E c \in Callers : Lock(c)
  \/ \E c \in Callers : Write(c)
  \/ \E c \in Callers : Endl(c)
  \/ \E c \in Callers : Unlock(c)
  \/ \E c \in Handlers : HandlerFinish(c)
  \/ \E c \in Handlers : HandlerThrow(c)
  \/ ClientConnect

Spec == Init /\ [][Next]_vars

\* One step of the main thread that the program takes by itself (a failing
\* accept is the operating system's choice and is not forced to happen).
MainStep ==
  \/ MainEntry
  \/ MainReturn
  \/ Socket
  \/ SetSockOpt
  \/ Bind
  \/ GetPortNumber
  \/ Listen
  \/ AcceptOk
  \/ Spawn

\* One step of thread c inside thread_safe_print or handle_connection.
ThreadStep(c) ==
  /\ c \in Callers
  /\ \/ Lock(c)
     \/ Write(c)
     \/ Endl(c)
     \/ Unlock(c)
     \/ (c \in Handlers /\ HandlerFinish(c))

\* The scheduler runs every thread that can run, and the clients connect.
Fairness ==
  /\ WF_vars(MainStep)
  /\ \A c \in 0..(MaxConn + 1) : WF_vars(ThreadStep(c))
  /\ WF_vars(ClientConnect)

LiveSpec == Spec /\ Fairness

(* ------------------------- observations -------------------------------- *)

\* The messages written to the console, in order, without the end-of-lines.
Lines == SelectSeq(out, LAMBDA t : t.text # ENDL)

\* The number of messages written whose text is in the set texts.
CountLines(texts) == Len(SelectSeq(out, LAMBDA t : t.text \in texts))

PortLineTexts == {USER_SELECTED_FOLLOWING_PORT_c, USER_DID_NOT_SPECIFY_PORT_c}

ErrorTexts ==
  { ENCOUNTERED_AN_ERROR_OPENING_STREAM_SOCKET_c,
    ENCOUNTERED_ERROR_SETTING_SOCKET_OPTIONS_c,
    ENCOUNTERED_ERROR_BINDING_STREAM_SOCKET_c,
    ENCOUNTERED_ERROR_FETCHING_SOCKET_PORT_c,
    ENCOUNTERED_ERROR_ACCEPTING_NEW_CONNECTION_c }

\* The calls whose failure the program treats as fatal, with their messages.
FatalOps == {"socket", "setsockopt", "bind", "getsockname", "accept"}

ErrorTextOf(op) ==
  CASE op = "socket" -> ENCOUNTERED_AN_ERROR_OPENING_STREAM_SOCKET_c
    [] op = "setsockopt" -> ENCOUNTERED_ERROR_SETTING_SOCKET_OPTIONS_c
    [] op = "bind" -> ENCOUNTERED_ERROR_BINDING_STREAM_SOCKET_c
    [] op = "getsockname" -> ENCOUNTERED_ERROR_FETCHING_SOCKET_PORT_c
    [] op = "accept" -> ENCOUNTERED_ERROR_ACCEPTING_NEW_CONNECTION_c

\* The handles returned by the successful accepts so far.
AcceptedFds == {calls[i].ret : i \in {j \in 1..Len(calls) : calls[j].op = "accept" /\ calls[j].ret # -1}}

\* Whether a fatal call has failed.
FatalFailure == \E i \in 1..Len(calls) : calls[i].op \in FatalOps /\ calls[i].ret = -1

\* The order of the set-up calls of run_server.
SetupOrder == <<"socket", "setsockopt", "bind", "getsockname", "listen">>

(* ------------------------------ claims --------------------------------- *)

\* C1: every handle returned by a successful accept is the argument of
\* exactly one handler thread (of none only while the accept loop stands
\* between the accept and the spawn of that handle), every handler's handle
\* came from an accept, and no two handlers hold the same handle.
C1_OneHandlerPerConnection ==
  /\ \A f \in AcceptedFds :
       Cardinality({c \in Handlers : thr[c].fd = f})
         = IF mainPc = "spawn" /\ f = connection_fd THEN 0 ELSE 1
  /\ \A c \in Handlers : thr[c].fd \in AcceptedFds
  /\ \A c, d \in Handlers : c # d => thr[c].fd # thr[d].fd

\* C1 witness: two handlers that have not returned exist at the same time.
C1_Witness ==
  /\ Alive
  /\ Len(thr) >= 2
  /\ thr[1].pc \in {"print", "memset"}
  /\ thr[2].pc \in {"print", "memset"}

\* C2: while the process runs, the accept loop is never inside
\* thread_safe_print and never holds cout_mutex; a connection queued on the
\* listening socket can be accepted, and an accepted one dispatched, in
\* whatever state the handlers and the log lock are.
C2_HandlersNeverBlockAccept ==
  /\ mainPc \in {"accept", "spawn"} => tsp[MAIN] = "idle" /\ cout_mutex # MAIN
  /\ (Alive /\ mainPc = "accept" /\ listening /\ pending > 0) => ENABLED AcceptOk
  /\ (Alive /\ mainPc = "spawn") => ENABLED Spawn

\* C2 witness: a connection is queued at the accept while one handler holds
\* the log lock and another one waits for it.
C2_Witness ==
  /\ Alive
  /\ mainPc = "accept"
  /\ pending > 0
  /\ \E c \in Handlers : cout_mutex = c
  /\ \E d \in Handlers : thr[d].pc = "print" /\ tsp[d] = "idle"

\* C3: a handler in which an exception was raised leaves the process running.
C3_HandlerFailureIsolated ==
  \A c \in Handlers : thr[c].pc = "threw" => Alive

\* C4: the connection handle of a handler that has returned is no longer open.
C4_ClosedWhenHandlerTerminates ==
  \A c \in Handlers : thr[c].pc = "done" => thr[c].fd \notin openFds

\* C5: under fair scheduling, unless accept reports an error, from some
\* point on every client that connected has been accepted and has a handler
\* of its own.
C5_AllAcceptedAndDispatched ==
  <>[]( \/ \E i \in 1..Len(calls) : calls[i].op = "accept" /\ calls[i].ret = -1
        \/ /\ pending = 0
           /\ Len(thr) = nConnected
           /\ Cardinality({thr[c].fd : c \in Handlers}) = nConnected )

\* C6: a failed fatal call is the last call the program makes; at most one
\* error message is ever written, only after such a failure, and it is the
\* message of the call that failed; once main has returned after the failure
\* the message and its end of line are on the console and the exit code is -1.
C6_FatalFailureLoggedOnceThenExit ==
  /\ \A i \in 1..Len(calls) :
       (calls[i].op \in FatalOps /\ calls[i].ret = -1) => i = Len(calls)
  /\ FatalFailure => mainPc \in {"print_error", "return", "returned"}
  /\ CountLines(ErrorTexts) <= 1
  /\ \A i \in 1..Len(out) :
       out[i].text \in ErrorTexts =>
         /\ FatalFailure
         /\ out[i].by = MAIN
         /\ out[i].text = ErrorTextOf(calls[Len(calls)].op)
  /\ (FatalFailure /\ proc = "exited") =>
       /\ exitCode = -1
       /\ \E i \in 1..(Len(out) - 1) :
            /\ out[i].text \in ErrorTexts
            /\ out[i + 1] = [by |-> MAIN, text |-> ENDL, arg |-> <<>>]

\* C6 witness: main has returned after an accept failed while handlers exist.
C6_Witness ==
  /\ proc = "exited"
  /\ calls # <<>>
  /\ calls[Len(calls)] = [by |-> MAIN, op |-> "accept", ret |-> -1]
  /\ Len(thr) >= 1

\* C7: accept is never called after a listen call that returned -1.
C7_ListenFailureIsFatal ==
  \A i \in 1..Len(calls) :
    (calls[i].op = "listen" /\ calls[i].ret = -1) =>
      \A j \in (i + 1)..Len(calls) : calls[j].op # "accept"

\* C8: with argc > 2 no system call is made, no thread is spawned, nothing
\* but the usage message and its end of line is written, and the process
\* ends by main returning -1 with exactly that line on the console.
C8_UsageErrorNoSocketWork ==
  argc > 2 =>
    /\ calls = <<>>
    /\ socket_fd = NOFD
    /\ openFds = {0, 1, 2}
    /\ thr = <<>>
    /\ \A i \in 1..Len(out) : out[i].text \in {USAGE_MESSAGE_c, ENDL}
    /\ CountLines({USAGE_MESSAGE_c}) <= 1
    /\ proc # "terminated"
    /\ proc = "exited" =>
         /\ exitCode = -1
         /\ exitCode # 0
         /\ out = << [by |-> MAIN, text |-> USAGE_MESSAGE_c, arg |-> <<>>],
                     [by |-> MAIN, text |-> ENDL, arg |-> <<>>] >>

\* C8 witness: the process has exited in a run with argc > 2.
C8_Witness == argc > 2 /\ proc = "exited"

\* C9: the calls made are socket, setsockopt, bind, getsockname, listen in
\* this order, each once, and only then accept calls; each of the first four
\* is followed by another call only if it succeeded.
C9_ListenerMovesForward ==
  /\ \A i \in 1..Len(calls) :
       /\ calls[i].by = MAIN
       /\ calls[i].op = IF i <= Len(SetupOrder) THEN SetupOrder[i] ELSE "accept"
  /\ \A i \in 1..(Len(calls) - 1) : (i < Len(SetupOrder)) => calls[i].ret # -1
  /\ mainPc \in {"accept", "spawn"} => Len(calls) >= Len(SetupOrder)

\* C9 witness: the loop has accepted a second connection.
C9_Witness == Len(calls) >= Len(SetupOrder) + 2 /\ mainPc = "spawn"

\* The console order of C10, for a run whose first print has returned.
ConsoleOrder ==
  /\ Len(Lines) >= 1
  /\ Lines[1].text \in PortLineTexts
  /\ CountLines(PortLineTexts) = 1
  /\ CountLines({SERVER_LISTENING_ON_PORT_c}) <= 1
  /\ \A i \in 1..Len(Lines) :
       Lines[i].text = HANDLING_NEW_CONNECTION_c =>
         \E j \in 2..(i - 1) : Lines[j].text = SERVER_LISTENING_ON_PORT_c
  /\ (mainPc \in {"accept", "spawn"} \/ \E i \in 1..Len(calls) : calls[i].op = "accept")
       => CountLines({SERVER_LISTENING_ON_PORT_c}) = 1

\* Whether main's first call of thread_safe_print has returned.
FirstPrintDone == mainPc \notin {"main", "print_usage", "print_port"}

\* C10 as stated: in every run, once the first print has returned, the
\* console starts with exactly one port-selection line, holds at most one
\* listening line, every handling line comes after the listening line, and
\* the listening line is there exactly once when the accept loop is reached.
C10_ConsoleOrderInEveryRun == FirstPrintDone => ConsoleOrder

\* C10 amended: the same, in every run started with at most one argument.
C10_ConsoleOrder == (argc <= 2 /\ FirstPrintDone) => ConsoleOrder

\* C10 witness: two handling lines are on the console.
C10_Witness == argc <= 2 /\ CountLines({HANDLING_NEW_CONNECTION_c}) >= 2

\* The number of "Handling new connection: f" messages written.
HandlingLines(f) ==
  Len(SelectSeq(out, LAMBDA t : t.text = HANDLING_NEW_CONNECTION_c /\ t.arg = <<f>>))

\* C11: whenever the accept loop stands at its accept call, the handling
\* line of every connection accepted before is on the console.
C11_LoggedBeforeNextAccept ==
  mainPc = "accept" => \A f \in AcceptedFds : HandlingLines(f) >= 1

\* C12: once the process has ended, exactly one handling line has been
\* written for each accepted connection (so that under fair scheduling each
\* line is eventually logged in every run, those that end included).
C12_EveryAcceptedConnectionLogged ==
  ~Alive => \A f \in AcceptedFds : HandlingLines(f) = 1

\* The port the user asked for: what main passes to run_server.
RequestedPort == IF argc = 2 THEN Atoi(argv1) ELSE 0

\* Whether the call op has been made and has succeeded.
Succeeded(op) == \E i \in 1..Len(calls) : calls[i].op = op /\ calls[i].ret # -1

\* The numbers printed in the listening lines written so far.
ListeningLineArgs ==
  {out[i].arg : i \in {j \in 1..Len(out) : out[j].text = SERVER_LISTENING_ON_PORT_c}}

\* C13: ntohs after htons is the identity on [1,65535]; in a run that asks
\* for a port P of [1,65535] and whose bind succeeds, the port bound, the
\* port get_port_number returns and the port of the listening line are P;
\* in a run that asks for port 0 they are the non-zero port the OS chose.
C13_ResolvedPortIsRequested ==
  /\ mainPc = "main" => \A p \in 1..65535 : Ntohs(Htons(p)) = p
  /\ (argc <= 2 /\ Succeeded("bind")) =>
       /\ RequestedPort \in 1..65535 => boundPort = RequestedPort
       /\ RequestedPort = 0 => boundPort \in EphemeralPorts /\ boundPort # 0
  /\ (argc <= 2 /\ Succeeded("getsockname") /\ RequestedPort \in 0..65535) =>
       /\ port = boundPort
       /\ ListeningLineArgs \subseteq {<<boundPort>>}
       /\ mainPc \in {"listen", "accept", "spawn"} => ListeningLineArgs = {<<boundPort>>}

\* C13 witness: a run that asked for port 80 listens and has logged port 80.
C13_Witness ==
  /\ Succeeded("listen")
  /\ RequestedPort = 80
  /\ ListeningLineArgs = {<<80>>}

\* The threads between the lock and the unlock of thread_safe_print.
InCriticalSection == {c \in Callers : tsp[c] \in {"locked", "wrote", "flushed"}}

\* C14: at most one thread is inside the critical section of
\* thread_safe_print and it is the holder of cout_mutex; on the console every
\* message is directly followed by the end of line of the thread that wrote
\* it, the last message excepted while its writer still holds the lock.
C14_LogWritesSerialized ==
  /\ Cardinality(InCriticalSection) <= 1
  /\ \A c \in Callers : c \in InCriticalSection <=> cout_mutex = c
  /\ cout_mutex \in Callers \cup {FREE}
  /\ \A i \in 1..Len(out) :
       IF i % 2 = 1
         THEN /\ out[i].text # ENDL
              /\ i = Len(out) => (cout_mutex = out[i].by /\ tsp[out[i].by] = "wrote")
         ELSE /\ out[i].text = ENDL
              /\ out[i].by = out[i - 1].by

\* C14 witness: a handler has written its message and not yet its end of
\* line while another handler and a complete handling line exist.
C14_Witness ==
  /\ \E c \in Handlers : tsp[c] = "wrote"
  /\ \E d \in Handlers : thr[d].pc = "print" /\ tsp[d] = "idle"
  /\ \E i \in 1..(Len(out) - 1) : out[i].text = HANDLING_NEW_CONNECTION_c /\ out[i + 1].text = ENDL

\* C15: every system call is made by the main thread and none of them is a
\* close; no handler's handle is the listening socket, which no accept
\* returns either; once created, the listening socket stays the descriptor
\* the socket call returned and stays open.
C15_ListeningSocketOwnedByAcceptLoop ==
  /\ \A i \in 1..Len(calls) :
       /\ calls[i].by = MAIN
       /\ calls[i].op \in {"socket", "setsockopt", "bind", "getsockname", "listen", "accept"}
  /\ \A c \in Handlers : thr[c].fd # socket_fd
  /\ socket_fd \notin AcceptedFds
  /\ Succeeded("socket") =>
       /\ socket_fd = calls[1].ret
       /\ socket_fd \in openFds

\* C15 witness: the socket listens, two connections were accepted and a
\* handler has returned.
C15_Witness ==
  /\ listening
  /\ Cardinality(AcceptedFds) >= 2
  /\ \E c \in Handlers : thr[c].pc = "done"

\* An argument text that does not start a number.
NonNumeric(s) == s # <<>> /\ ~IsDigit(s[1]) /\ s[1] \notin {"-", "+", " "}

\* What a run with an OS-assigned port does: port 0 goes to run_server and
\* into the bind address, the OS chooses the port bound, and the listening
\* line reports that port; no usage message is written.
OsAssignedRun ==
  /\ (mainPc # "main" /\ ~Succeeded("getsockname")) => port = 0
  /\ sinPort = 0
  /\ Succeeded("bind") => boundPort \in EphemeralPorts
  /\ Succeeded("getsockname") => port = boundPort
  /\ ListeningLineArgs \subseteq {<<boundPort>>}
  /\ mainPc \in {"listen", "accept", "spawn"} => ListeningLineArgs = {<<boundPort>>}
  /\ CountLines({USAGE_MESSAGE_c}) = 0

C17_ListeningLineAfterListen ==
  ListeningLineArgs # {} => \E i \in 1..Len(calls) : calls[i].op = "listen"

\* C18: under fair scheduling the main thread leaves every call of
\* thread_safe_print it makes, and every handler thread that is spawned
\* completes its print and returns.
C18_EveryPrintCompletes ==
  /\ AtPrint(MAIN) ~> ~AtPrint(MAIN)
  /\ \A c \in 1..MaxConn :
       (Len(thr) >= c) ~> (Len(thr) >= c /\ thr[c].pc = "done")

\* C19: in a run that asks for a port P outside [0,65535], nothing rejects
\* it: the first line reports P, the bind call is made with P mod 65536 in
\* the address, and the port bound, returned by get_port_number and reported
\* in the listening line is P mod 65536, or the port the OS chose when
\* P mod 65536 = 0.
C19_PortTruncatedTo16Bits ==
  (argc = 2 /\ RequestedPort \notin 0..65535) =>
    /\ CountLines({USAGE_MESSAGE_c}) = 0
    /\ FirstPrintDone =>
         Lines[1] = [by |-> MAIN, text |-> USER_SELECTED_FOLLOWING_PORT_c, arg |-> <<RequestedPort>>]
    /\ (Succeeded("setsockopt") /\ mainPc # "bind") => \E i \in 1..Len(calls) : calls[i].op = "bind"
    /\ (\E i \in 1..Len(calls) : calls[i].op = "bind") =>
         /\ sinPort = Swap16(RequestedPort % 65536)
         /\ Swap16(sinPort) = RequestedPort % 65536
    /\ Succeeded("bind") =>
         IF RequestedPort % 65536 = 0
           THEN boundPort \in EphemeralPorts
           ELSE boundPort = RequestedPort % 65536
    /\ Succeeded("getsockname") =>
         /\ port = boundPort
         /\ ListeningLineArgs \subseteq {<<boundPort>>}
    /\ mainPc \in {"listen", "accept", "spawn"} => ListeningLineArgs = {<<boundPort>>}

\* C19 witness: a run that asked for port 65616 listens on port 80 and has
\* logged 65616 first and 80 in its listening line.
C19_Witness ==
  /\ RequestedPort = 65616
  /\ Succeeded("listen")
  /\ boundPort = 80
  /\ Lines[1].arg = <<65616>>
  /\ ListeningLineArgs = {<<80>>}

====
